---- MODULE Spec2Model ----
(***************************************************************************)
(* AI Ad Studio: the App component's state machine (App.tsx), the          *)
(* ImageUploader and AdDisplay controls that drive it, and the two         *)
(* geminiService calls (generateAdScript, generateAdVideo) with the        *)
(* provider's answers as nondeterministic inputs.                          *)
(*                                                                         *)
(* JavaScript runs each handler, and each continuation after an await, to  *)
(* completion on the event loop: one action is one such run.               *)
(***************************************************************************)
EXTENDS Integers, Sequences, FiniteSets, Bags, TLC

(* ------------------------------ bounds -------------------------------- *)

\* handleGenerateScript invocations pending at the same time.
MaxScriptCalls == 2

\* handleGenerateVideo invocations pending at the same time.
MaxVideoCalls == 2

\* getVideosOperation status checks one generateAdVideo invocation issues.
MaxPolls == 2

\* FileReader reads (readAsDataURL) pending at the same time.
MaxPendingReads == 1

\* Runs of the 5 s interval callback after one video request.
MaxTicks == 9

\* Scenes in the scenes array of a sample script.
MaxScenes == 3

(* ---------------------------- value domains --------------------------- *)

\* JavaScript null / undefined.
Null == "null"

\* The useRef(null) of loadingIntervalRef; timer ids are positive numbers.
NoTimer == 0

\* Files the user may pick or drop, with their File.type.
ImageFiles == {"a.png", "b.jpg"}
OtherFiles == {"notes.txt"}
AllFiles == ImageFiles \cup OtherFiles

\* The files the user picks in the sessions Spec explores: one image, and
\* one file that is no image.
PickedFiles == {"a.png", "notes.txt"}

FileType(f) ==
  CASE f = "a.png" -> "image/png"
    [] f = "b.jpg" -> "image/jpeg"
    [] OTHER -> "text/plain"

\* What the user may type in the description textarea.
Descriptions == {"", "wireless headphones"}

\* String.prototype.includes
Includes(hay, needle) ==
  \E i \in 1..(Len(hay) - Len(needle) + 1) :
     SubSeq(hay, i, i + Len(needle) - 1) = needle

\* String.prototype.startsWith
StartsWith(s, prefix) ==
  Len(s) >= Len(prefix) /\ SubSeq(s, 1, Len(prefix)) = prefix

\* FileReader.readAsDataURL's result for file f.
DataUrl(f) == "data:" \o FileType(f) \o ";base64," \o f

LOADING_MESSAGES ==
  << "Warming up the virtual cameras...",
     "Storyboarding your vision...",
     "Setting up the digital lighting...",
     "Directing the AI actors...",
     "Rendering the first cut...",
     "Adding special effects and sound...",
     "Finalizing the masterpiece...",
     "This can take a few minutes, thanks for your patience!" >>

\* Array.prototype.indexOf, 0-based, -1 when absent.
IndexOf(arr, x) ==
  IF \E i \in 1..Len(arr) : arr[i] = x
  THEN (CHOOSE i \in 1..Len(arr) : arr[i] = x /\ \A j \in 1..(i-1) : arr[j] # x) - 1
  ELSE -1

\* The setInterval callback's updater: the entry after prev, wrapping.
\* A rotation that stops at the last entry instead of wrapping.
NextLoadingMessageNoWrap(prev) ==
  LET currentIndex == IndexOf(LOADING_MESSAGES, prev)
      nextIndex == IF currentIndex + 1 < Len(LOADING_MESSAGES)
                   THEN currentIndex + 1
                   ELSE currentIndex
  IN  LOADING_MESSAGES[nextIndex + 1]

NextLoadingMessage(prev) ==
  LET currentIndex == IndexOf(LOADING_MESSAGES, prev)
      nextIndex == (currentIndex + 1) % Len(LOADING_MESSAGES)
  IN  LOADING_MESSAGES[nextIndex + 1]

(* ------------------------ user-facing messages ------------------------ *)

MsgRateLimited == "API rate limit exceeded. Please try again later."
MsgScriptFailed ==
  "Failed to generate ad script. The model may have returned an invalid response."
MsgQuotaExceeded ==
  "API quota exceeded. Please check your plan and billing details, or try again later."
MsgVideoFailed == "Failed to generate video ad. An unexpected error occurred."
MsgMissingResult == "Video generation completed, but no download link was found."
MsgNoImage == "Please upload a product image first."
MsgNoScriptOrImage == "Cannot generate video without an ad script and product image."
MsgUnknownScript == "An unknown error occurred. Please check the console."
MsgUnknownVideo == "An unknown error occurred while generating the video."

API_KEY == "KEY"

\* What process.env.API_KEY can hold when the bundle is loaded: nothing, the
\* empty string, or a key.
EnvKeys == {Null, "", API_KEY}

MsgNoApiKey == "API_KEY environment variable not set"

\* A geminiService module that makes its client without looking at the key.
GeminiServiceModuleUnchecked(key) ==
  [threw |-> Null, ai |-> "GoogleGenAI(" \o key \o ")"]

\* The top level of geminiService: if (!process.env.API_KEY) throw ...;
\* const ai = new GoogleGenAI({ apiKey: process.env.API_KEY }).
GeminiServiceModule(key) ==
  IF ~(key # Null /\ key # "")
  THEN [threw |-> MsgNoApiKey, ai |-> Null]
  ELSE [threw |-> Null, ai |-> "GoogleGenAI(" \o key \o ")"]

(* --------------------- what the environment throws -------------------- *)

\* A thrown value: isError is `instanceof Error`, message its .message, and
\* cause what actually went wrong (the model's record of the truth; the
\* code sees only isError and message).
Thrown(cause, isError, message) ==
  [cause |-> cause, isError |-> isError, message |-> message]

\* Failures of an SDK call (generateContent, generateVideos,
\* getVideosOperation): the SDK's ApiError carries the response body as its
\* message, a failed fetch is a TypeError, and a rejection may carry a value
\* that is no Error.
ApiErrors ==
  { Thrown("http429", TRUE,
      "{error:{code:429,message:Resource has been exhausted (e.g. check quota).,status:RESOURCE_EXHAUSTED}}"),
    Thrown("http500", TRUE,
      "{error:{code:500,message:Internal error encountered.,status:INTERNAL}}"),
    Thrown("http400", TRUE,
      "{error:{code:400,message:Request payload size 4291843 exceeds the limit.,status:INVALID_ARGUMENT}}"),
    Thrown("network", TRUE, "Failed to fetch"),
    Thrown("other", FALSE, "") }

\* generateVideos and getVideosOperation may also fail with the
\* RESOURCE_EXHAUSTED status and no HTTP 429 in the message.
VideoApiErrors ==
  ApiErrors \cup
    { Thrown("resourceExhausted", TRUE,
        "{error:{code:8,message:Quota exceeded for video generation.,status:RESOURCE_EXHAUSTED}}") }

\* Rejections of fileToBase64 (a FileReader failure).
FileErrors ==
  { Thrown("fileRead", TRUE, "The file could not be read."),
    Thrown("fileRead", FALSE, "") }

\* The AdScripts the model may write.
ScriptContents == {"scriptA", "scriptB"}

\* A Scene (types.ts) the model may write; sceneNumber is whatever number
\* the model put there.
Scene(sceneNumber, tag) ==
  [sceneNumber |-> sceneNumber,
   setting |-> "setting " \o tag,
   action |-> "action " \o tag,
   dialogue |-> "dialogue " \o tag,
   sound |-> "sound " \o tag]

\* An AdScript (types.ts).
Document(title, tagline, scenes) ==
  [title |-> title, tagline |-> tagline, scenes |-> scenes]

\* The AdScript each JSON document of ScriptContents parses to: scriptA has
\* three scenes numbered 1, 2, 3; scriptB two scenes that carry the same
\* number.
ScriptDocument ==
  [c \in ScriptContents |->
     IF c = "scriptA"
     THEN Document("Sound Unbound", "Hear everything.",
                   << Scene(1, "a"), Scene(2, "b"), Scene(3, "c") >>)
     ELSE Document("Quiet", "Less noise.", << Scene(2, "c"), Scene(2, "b") >>)]

\* Sample AdScripts: every scenes array of up to MaxScenes scenes over three
\* scenes, two of them with the same sceneNumber.
SampleScenes == { Scene(1, "a"), Scene(2, "b"), Scene(2, "c") }
SampleDocuments ==
  { Document("T", "G", scenes) :
      scenes \in UNION { [1..n -> SampleScenes] : n \in 0..MaxScenes } }
    \cup { ScriptDocument[c] : c \in ScriptContents }

\* response.text of a generateContent response: a JSON document, text that
\* does not parse (position: where the parser stops), or no text at all.
ResponseTexts ==
  { [kind |-> "json", position |-> 0, content |-> c] : c \in ScriptContents }
    \cup { [kind |-> "malformed", position |-> 0, content |-> Null],
           [kind |-> "malformed", position |-> 429, content |-> Null],
           [kind |-> "undefined", position |-> 0, content |-> Null] }

\* What `JSON.parse(response.text.trim())` throws on a text that is not JSON.
ParseError(text) ==
  IF text.kind = "undefined"
  THEN Thrown("noText", TRUE, "Cannot read properties of undefined (reading 'trim')")
  ELSE Thrown("malformedJson", TRUE,
         "Unexpected token } in JSON at position " \o ToString(text.position))

\* An operation value as generateVideos / getVideosOperation return it:
\* done, and response?.generatedVideos?.[0]?.video?.uri.
Operation(done, uri) == [done |-> done, uri |-> uri]

\* The download link of the video the provider made from a prompt built on
\* script and the image of file.
DownloadLink(script, file) ==
  "https://provider/video?prompt=" \o script \o "&image=" \o file

\* What generateVideos / getVideosOperation may return to an invocation that
\* submitted script and file: not done yet, done without a video, done with
\* an empty uri, done with the link.
OperationsFor ==
  [script \in ScriptContents |->
     [file \in ImageFiles |->
        { Operation(FALSE, Null), Operation(TRUE, Null), Operation(TRUE, ""),
          Operation(TRUE, DownloadLink(script, file)) }]]
Operations(script, file) == OperationsFor[script][file]

\* Every operation value an invocation may hold.
AllOperations ==
  UNION { Operations(script, file) : script \in ScriptContents, file \in ImageFiles }

\* JavaScript truthiness of a string-or-undefined value.
Truthy(s) == s # Null /\ s # ""

(* ------------------------- geminiService.ts --------------------------- *)

\* JSON.parse(jsonText) as AdScript, for a text that is a JSON document.
JsonParse(text) == text.content

\* A settled promise: a value, or a thrown Error with its message.
Returned(v) == [threw |-> FALSE, value |-> v]
Threw(m) == [threw |-> TRUE, value |-> m]

\* generateAdScript's catch block: the message of the Error it rethrows.
ScriptCatch(e) ==
  IF e.isError /\ Includes(e.message, "429")
  THEN MsgRateLimited
  ELSE MsgScriptFailed

\* The fields of an answer that do not apply to it.
NoText == [kind |-> "none", position |-> 0, content |-> Null]
NothingThrown == Thrown("none", FALSE, "")

\* What the provider does with a generateContent request: it answers with a
\* response whose text is t, or the call throws e.
ScriptResponses ==
  { [ok |-> TRUE, text |-> t, thrown |-> NothingThrown] : t \in ResponseTexts }
    \cup { [ok |-> FALSE, text |-> NoText, thrown |-> e] : e \in ApiErrors }

\* generateAdScript from the provider's answer on: trim, JSON.parse, catch.
GenerateAdScript(resp) ==
  IF ~resp.ok THEN Threw(ScriptCatch(resp.thrown))
  ELSE IF resp.text.kind = "json" THEN Returned(JsonParse(resp.text))
  ELSE Threw(ScriptCatch(ParseError(resp.text)))

\* generateAdScript for each answer of the provider.
ScriptOutcome == [resp \in ScriptResponses |-> GenerateAdScript(resp)]

\* generateAdVideo's catch block: the message of the Error it rethrows.
VideoCatch(e) ==
  IF e.isError /\ (Includes(e.message, "429") \/ Includes(e.message, "RESOURCE_EXHAUSTED"))
  THEN MsgQuotaExceeded
  ELSE MsgVideoFailed

\* generateAdVideo for each failure of generateVideos or getVideosOperation.
VideoThrowOutcome == [e \in VideoApiErrors |-> Threw(VideoCatch(e))]

\* throw new Error("Video generation completed, but no download link was
\* found."): the throw is inside the try block, so the function's own catch
\* takes it and rethrows what VideoCatch makes of it.
MissingResultOutcome ==
  Threw(VideoCatch(Thrown("missingResult", TRUE, MsgMissingResult)))

\* generateAdVideo once the poll loop has left with operation op: the link
\* with the key appended, or the "no download link" Error.
VideoResultOf ==
  [op \in AllOperations |->
     LET downloadLink == op.uri
     IN  IF ~Truthy(downloadLink)
         THEN MissingResultOutcome
         ELSE Returned(downloadLink \o "&key=" \o API_KEY)]
VideoResult(op) == VideoResultOf[op]

\* The handlers' catch: err instanceof Error ? err.message : unknown.
HandlerMessage(err, unknown) == IF err.isError THEN err.message ELSE unknown

(* ------------------------------- state -------------------------------- *)

VARIABLES
  imageFile,            \* useState<File | null>
  imagePreview,         \* useState<string | null>
  productDescription,   \* useState<string>
  adScript,             \* useState<AdScript | null>
  isLoading,            \* useState<boolean>
  error,                \* useState<string | null>
  isVideoLoading,       \* useState<boolean>
  videoLoadingMessage,  \* useState<string>
  ticks,                \* the interval callbacks run since the last video
                        \* request (history only)
  videoUrl,             \* useState<string | null>
  videoError,           \* useState<string | null>
  loadingIntervalRef,   \* useRef: the id of the last setInterval
  activeTimers,         \* the setInterval timers not yet cleared
  pendingReads,         \* per file, the FileReaders whose onloadend is due
  scriptCalls,          \* the pending handleGenerateScript invocations
  videoCalls,           \* the pending handleGenerateVideo invocations
  lastReset,            \* the control that reset the App since the last
                        \* script request, "none" if none did (history only)
  apiKey,               \* process.env.API_KEY
  ai                    \* geminiService's GoogleGenAI client, null if the
                        \* module threw before making it

vars ==
  << imageFile, imagePreview, productDescription, adScript, isLoading, error,
     isVideoLoading, videoLoadingMessage, ticks, videoUrl, videoError,
     loadingIntervalRef, activeTimers, pendingReads, scriptCalls, videoCalls,
     lastReset, apiKey, ai >>

envVars == << apiKey, ai >>
imageVars == << imageFile, imagePreview, pendingReads >>
scriptVars == << adScript, isLoading, error >>
videoVars ==
  << isVideoLoading, videoLoadingMessage, ticks, videoUrl, videoError,
     loadingIntervalRef, activeTimers >>

\* A pending invocation is a record: what it awaits (pc), what its closure
\* holds, and the requests it has issued so far. The pending invocations
\* of a handler are a bag of such records; an invocation leaves the bag when
\* it settles.
NewScriptCall == [pc |-> "fileRead", requests |-> 0]
NewVideoCall(script, file) ==
  [pc |-> "fileRead", script |-> script, file |-> file, submits |-> 0,
   delays |-> 0, checks |-> 0]

PendingScriptCalls == BagToSet(scriptCalls)
PendingVideoCalls == BagToSet(videoCalls)

\* The bag with one copy of c added, removed, or replaced by d.
Add(bag, c) == bag (+) SetToBag({c})
Remove(bag, c) == bag (-) SetToBag({c})
Replace(bag, c, d) == Add(Remove(bag, c), d)

Init ==
  /\ imageFile = Null
  /\ imagePreview = Null
  /\ productDescription = ""
  /\ adScript = Null
  /\ isLoading = FALSE
  /\ error = Null
  /\ isVideoLoading = FALSE
  /\ videoLoadingMessage = LOADING_MESSAGES[1]
  /\ ticks = 0
  /\ videoUrl = Null
  /\ videoError = Null
  /\ loadingIntervalRef = NoTimer
  /\ activeTimers = {}
  /\ pendingReads = [f \in ImageFiles |-> 0]
  /\ scriptCalls = EmptyBag
  /\ videoCalls = EmptyBag
  /\ lastReset = "none"
  /\ \E key \in EnvKeys :
       /\ apiKey = key
       /\ ai = GeminiServiceModule(key).ai

(* ------------------------- what is rendered --------------------------- *)

\* A form that stays on screen while the script request is out.
\* App.tsx imports geminiService: when that module throws, App is never
\* defined and nothing is rendered.
AppLoaded == ai # Null

FormShownWhileLoading == AppLoaded /\ adScript = Null

\* {!adScript && !isLoading && ( ...form... )}
FormShown == AppLoaded /\ adScript = Null /\ ~isLoading

\* {error && !isLoading && ( ...error panel with Try Again... )}
ErrorPanelShown == AppLoaded /\ Truthy(error) /\ ~isLoading

\* {adScript && !isLoading && ( <AdDisplay .../> )}
AdDisplayShown == AppLoaded /\ adScript # Null /\ ~isLoading

\* ImageUploader: the drop zone and file input, rendered without a preview.
DropZoneShown == FormShown /\ ~Truthy(imagePreview)

\* ImageUploader: the preview with its "Remove image" button.
PreviewShown == FormShown /\ Truthy(imagePreview)

\* <textarea disabled={!imageFile}>
DescriptionEnabled == FormShown /\ imageFile # Null

\* <button onClick={handleGenerateScript} disabled={!imageFile || isLoading}>
GenerateScriptEnabled == FormShown /\ ~(imageFile = Null \/ isLoading)

\* AdDisplay: <button onClick={onGenerateVideo} disabled={isVideoLoading}>
GenerateVideoEnabled == AdDisplayShown /\ ~isVideoLoading

\* AdDisplay: {videoError && !isVideoLoading && ( ... Retry Video Generation)}
RetryVideoEnabled == AdDisplayShown /\ Truthy(videoError) /\ ~isVideoLoading

\* AdDisplay: <button onClick={onReset}> New Script
NewScriptEnabled == AdDisplayShown

(* ----------------------------- App.tsx -------------------------------- *)

\* setInterval's return value: an id no live timer has. Only the ref ever
\* holds an id, so the lowest id that is neither live nor in the ref stands
\* for a fresh one.
FreshTimer ==
  LET used == activeTimers \cup {loadingIntervalRef}
  IN  CHOOSE t \in 1..(Cardinality(used) + 1) :
        t \notin used /\ \A u \in 1..(t - 1) : u \in used

\* The FileReaders started and not yet at onloadend.
TotalPendingReads ==
  LET RECURSIVE Sum(_)
      Sum(T) == IF T = {} THEN 0
                ELSE LET f == CHOOSE g \in T : TRUE
                     IN  pendingReads[f] + Sum(T \ {f})
  IN  Sum(ImageFiles)

\* if (loadingIntervalRef.current) clearInterval(loadingIntervalRef.current)
ClearLoadingInterval ==
  activeTimers' =
    IF loadingIntervalRef # NoTimer THEN activeTimers \ {loadingIntervalRef}
    ELSE activeTimers

\* A reset that leaves the video error where it is.
HandleResetKeepingVideoError ==
  /\ productDescription' = ""
  /\ adScript' = Null
  /\ error' = Null
  /\ isLoading' = FALSE
  /\ videoUrl' = Null
  /\ isVideoLoading' = FALSE
  /\ ClearLoadingInterval
  /\ UNCHANGED << videoError, videoLoadingMessage, ticks, loadingIntervalRef >>

\* handleReset: everything but the image, and the ref keeps its timer id.
HandleReset ==
  /\ productDescription' = ""
  /\ adScript' = Null
  /\ error' = Null
  /\ isLoading' = FALSE
  /\ videoUrl' = Null
  /\ videoError' = Null
  /\ isVideoLoading' = FALSE
  /\ ClearLoadingInterval
  /\ UNCHANGED << videoLoadingMessage, ticks, loadingIntervalRef >>

\* A hard reset that keeps the image, as the soft one does.
HandleHardResetKeepingImage ==
  /\ HandleReset
  /\ UNCHANGED << imageFile, imagePreview >>

\* handleHardReset: handleReset, then the image and its preview.
HandleHardReset ==
  /\ HandleReset
  /\ imageFile' = Null
  /\ imagePreview' = Null

\* A file selection that stores the file and starts the reader, without
\* the reset.
SelectFileWithoutReset(f) ==
  /\ DropZoneShown
  /\ IF StartsWith(FileType(f), "image/")
     THEN /\ TotalPendingReads < MaxPendingReads
          /\ imageFile' = f
          /\ pendingReads' = [pendingReads EXCEPT ![f] = @ + 1]
          /\ UNCHANGED << imagePreview, productDescription, scriptVars,
                          videoVars, scriptCalls, videoCalls >>
          /\ lastReset' = "SelectFile"
          /\ UNCHANGED envVars
     ELSE UNCHANGED vars

\* ImageUploader.handleFileChange, from the file input or a drop: an image
\* goes to App.handleFileSelect (setImageFile, a FileReader started,
\* handleReset), any other file gets the alert and nothing else.
SelectFile(f) ==
  /\ DropZoneShown
  /\ IF StartsWith(FileType(f), "image/")
     THEN /\ TotalPendingReads < MaxPendingReads
          /\ imageFile' = f
          /\ pendingReads' = [pendingReads EXCEPT ![f] = @ + 1]
          /\ HandleReset
          /\ UNCHANGED << imagePreview, scriptCalls, videoCalls >>
          /\ lastReset' = "SelectFile"
          /\ UNCHANGED envVars
     ELSE UNCHANGED vars

\* reader.onloadend: setImagePreview(reader.result), null after a failed read.
FileReaderLoadEnd(f, ok) ==
  /\ pendingReads[f] > 0
  /\ pendingReads' = [pendingReads EXCEPT ![f] = @ - 1]
  /\ imagePreview' = IF ok THEN DataUrl(f) ELSE Null
  /\ UNCHANGED << imageFile, productDescription, scriptVars, videoVars,
                  scriptCalls, videoCalls, lastReset, envVars >>

\* The textarea's onChange.
SetDescription(d) ==
  /\ DescriptionEnabled
  /\ d # productDescription
  /\ productDescription' = d
  /\ UNCHANGED << imageVars, scriptVars, videoVars, scriptCalls, videoCalls,
                  lastReset, envVars >>

\* The "Remove image" button of the preview: onClear = handleHardReset.
RemoveImage ==
  /\ PreviewShown
  /\ HandleHardReset
  /\ UNCHANGED << pendingReads, scriptCalls, videoCalls >>
  /\ lastReset' = "RemoveImage"
  /\ UNCHANGED envVars

\* The error panel's "Try Again" button: handleHardReset.
TryAgain ==
  /\ ErrorPanelShown
  /\ HandleHardReset
  /\ UNCHANGED << pendingReads, scriptCalls, videoCalls >>
  /\ lastReset' = "TryAgain"
  /\ UNCHANGED envVars

\* A New Script that also abandons the video requests that are out.
NewScriptCancelling ==
  /\ NewScriptEnabled
  /\ HandleReset
  /\ videoCalls' = EmptyBag
  /\ UNCHANGED << imageVars, scriptCalls >>
  /\ lastReset' = "NewScript"
  /\ UNCHANGED envVars

\* AdDisplay's "New Script" button: onReset = handleReset.
NewScript ==
  /\ NewScriptEnabled
  /\ HandleReset
  /\ UNCHANGED << imageVars, scriptCalls, videoCalls >>
  /\ lastReset' = "NewScript"
  /\ UNCHANGED envVars

(* ----------------------- handleGenerateScript ------------------------- *)

\* A Generate Script that leaves the last error on screen.
GenerateScriptKeepingError ==
  /\ GenerateScriptEnabled
  /\ BagCardinality(scriptCalls) < MaxScriptCalls
  /\ IF imageFile = Null
     THEN /\ error' = MsgNoImage
          /\ UNCHANGED << adScript, isLoading, scriptCalls >>
     ELSE /\ isLoading' = TRUE
          /\ adScript' = Null
          /\ scriptCalls' = Add(scriptCalls, NewScriptCall)
          /\ UNCHANGED error
  /\ UNCHANGED << imageVars, productDescription, videoVars, videoCalls >>
  /\ lastReset' = "none"
  /\ UNCHANGED envVars

\* A Generate Script handler that also wipes the video result.
GenerateScriptResettingVideo ==
  /\ GenerateScriptEnabled
  /\ BagCardinality(scriptCalls) < MaxScriptCalls
  /\ IF imageFile = Null
     THEN /\ error' = MsgNoImage
          /\ UNCHANGED << adScript, isLoading, scriptCalls, videoUrl, videoError >>
     ELSE /\ isLoading' = TRUE
          /\ error' = Null
          /\ adScript' = Null
          /\ videoUrl' = Null
          /\ videoError' = Null
          /\ scriptCalls' = Add(scriptCalls, NewScriptCall)
  /\ UNCHANGED << imageVars, productDescription, isVideoLoading,
                  videoLoadingMessage, ticks, loadingIntervalRef, activeTimers,
                  videoCalls >>
  /\ lastReset' = "none"
  /\ UNCHANGED envVars

\* The "Generate Script" button: the guard, then the three setters and the
\* call of fileToBase64, whose promise the handler awaits.
GenerateScript ==
  /\ GenerateScriptEnabled
  /\ BagCardinality(scriptCalls) < MaxScriptCalls
  /\ IF imageFile = Null
     THEN /\ error' = MsgNoImage
          /\ UNCHANGED << adScript, isLoading, scriptCalls >>
     ELSE /\ isLoading' = TRUE
          /\ error' = Null
          /\ adScript' = Null
          /\ scriptCalls' = Add(scriptCalls, NewScriptCall)
  /\ UNCHANGED << imageVars, productDescription, videoVars, videoCalls >>
  /\ lastReset' = "none"
  /\ UNCHANGED envVars

\* fileToBase64 resolved: generateAdScript is called and sends its one
\* generateContent request.
ScriptFileRead(c) ==
  /\ c \in PendingScriptCalls
  /\ c.pc = "fileRead"
  /\ scriptCalls' =
       Replace(scriptCalls, c, [c EXCEPT !.pc = "request", !.requests = @ + 1])
  /\ UNCHANGED << imageVars, productDescription, scriptVars, videoVars, videoCalls,
                  lastReset, envVars >>

\* fileToBase64 rejected with e: the handler's catch and finally.
ScriptFileReadFailed(c, e) ==
  /\ c \in PendingScriptCalls
  /\ c.pc = "fileRead"
  /\ error' = HandlerMessage(e, MsgUnknownScript)
  /\ isLoading' = FALSE
  /\ scriptCalls' = Remove(scriptCalls, c)
  /\ UNCHANGED << imageVars, productDescription, adScript, videoVars, videoCalls,
                  lastReset, envVars >>

\* A generateAdScript that sends its request a second time when the first
\* one fails.
ScriptSettledRetrying(c, resp) ==
  /\ c \in PendingScriptCalls
  /\ c.pc = "request"
  /\ LET result == ScriptOutcome[resp]
     IN  IF result.threw /\ c.requests < 2
         THEN /\ scriptCalls' =
                   Replace(scriptCalls, c, [c EXCEPT !.requests = @ + 1])
              /\ UNCHANGED << adScript, error, isLoading >>
         ELSE /\ IF result.threw
                 THEN /\ error' = HandlerMessage(Thrown("rethrown", TRUE, result.value),
                                                 MsgUnknownScript)
                      /\ UNCHANGED adScript
                 ELSE /\ adScript' = result.value
                      /\ UNCHANGED error
              /\ scriptCalls' = Remove(scriptCalls, c)
              /\ isLoading' = FALSE
  /\ UNCHANGED << imageVars, productDescription, videoVars, videoCalls,
                  lastReset, envVars >>

\* The provider's answer resp to the generateContent request: generateAdScript
\* returns or throws, and the handler stores the script or the message,
\* then clears isLoading.
ScriptSettled(c, resp) ==
  /\ c \in PendingScriptCalls
  /\ c.pc = "request"
  /\ LET result == ScriptOutcome[resp]
     IN  IF result.threw
         THEN /\ error' = HandlerMessage(Thrown("rethrown", TRUE, result.value),
                                         MsgUnknownScript)
              /\ UNCHANGED adScript
         ELSE /\ adScript' = result.value
              /\ UNCHANGED error
  /\ scriptCalls' = Remove(scriptCalls, c)
  /\ isLoading' = FALSE
  /\ UNCHANGED << imageVars, productDescription, videoVars, videoCalls,
                  lastReset, envVars >>

(* ------------------------ handleGenerateVideo ------------------------- *)

\* handleGenerateVideo up to its first await: the guard, the four setters,
\* the setInterval stored in the ref, and the call of fileToBase64. The
\* closure keeps the adScript and imageFile of the render it was made in.
HandleGenerateVideo ==
  /\ BagCardinality(videoCalls) < MaxVideoCalls
  /\ IF adScript = Null \/ imageFile = Null
     THEN /\ videoError' = MsgNoScriptOrImage
          /\ UNCHANGED << isVideoLoading, videoLoadingMessage, ticks, videoUrl,
                          loadingIntervalRef, activeTimers, videoCalls >>
     ELSE /\ isVideoLoading' = TRUE
          /\ videoError' = Null
          /\ videoUrl' = Null
          /\ videoLoadingMessage' = LOADING_MESSAGES[1]
          /\ ticks' = 0
          /\ loadingIntervalRef' = FreshTimer
          /\ activeTimers' = activeTimers \cup {FreshTimer}
          /\ videoCalls' = Add(videoCalls, NewVideoCall(adScript, imageFile))
  /\ UNCHANGED << imageVars, productDescription, scriptVars, scriptCalls,
                  lastReset, envVars >>

\* AdDisplay's "Generate Video" button.
GenerateVideo == GenerateVideoEnabled /\ HandleGenerateVideo

\* AdDisplay's "Retry Video Generation" button.
RetryVideo == RetryVideoEnabled /\ HandleGenerateVideo

\* The handler's finally: setIsVideoLoading(false) and the clearInterval.
VideoFinally ==
  /\ isVideoLoading' = FALSE
  /\ ClearLoadingInterval
  /\ UNCHANGED << videoLoadingMessage, ticks, loadingIntervalRef >>

\* generateAdVideo settled with result for invocation c: setVideoUrl or the
\* catch's setVideoError, then the finally.
VideoSettle(c, result) ==
  /\ IF result.threw
     THEN /\ videoError' = HandlerMessage(Thrown("rethrown", TRUE, result.value),
                                          MsgUnknownVideo)
          /\ UNCHANGED videoUrl
     ELSE /\ videoUrl' = result.value
          /\ UNCHANGED videoError
  /\ videoCalls' = Remove(videoCalls, c)
  /\ VideoFinally

\* fileToBase64 resolved: generateAdVideo is called and submits its one
\* generateVideos request.
VideoFileRead(c) ==
  /\ c \in PendingVideoCalls
  /\ c.pc = "fileRead"
  /\ videoCalls' =
       Replace(videoCalls, c, [c EXCEPT !.pc = "submit", !.submits = @ + 1])
  /\ UNCHANGED << imageVars, productDescription, scriptVars, videoVars, scriptCalls,
                  lastReset, envVars >>

\* fileToBase64 rejected with e: the handler's catch and finally.
VideoFileReadFailed(c, e) ==
  /\ c \in PendingVideoCalls
  /\ c.pc = "fileRead"
  /\ videoError' = HandlerMessage(e, MsgUnknownVideo)
  /\ UNCHANGED videoUrl
  /\ videoCalls' = Remove(videoCalls, c)
  /\ VideoFinally
  /\ UNCHANGED << imageVars, productDescription, scriptVars, scriptCalls,
                  lastReset, envVars >>

(* ------------------- generateAdVideo: the poll loop ------------------- *)

\* A loop that polls once more after the operation is done.
LoopContinuesPastDone(op) == TRUE

\* while (!operation.done)
LoopContinues(op) == ~op.done

\* generateAdVideo holding operation value op (the submit's handle or a
\* check's answer): while it is not done, start the 10 s setTimeout; once it
\* is done, leave the loop, take the link, and settle.
WithOperation(c, op) ==
  IF LoopContinues(op)
  THEN /\ videoCalls' =
            Replace(videoCalls, c, [c EXCEPT !.pc = "delay", !.delays = @ + 1])
       /\ UNCHANGED videoVars
  ELSE VideoSettle(c, VideoResult(op))

\* The generateVideos call returned the operation handle op.
VideoSubmitReturned(c, op) ==
  /\ c \in PendingVideoCalls
  /\ c.pc = "submit"
  /\ WithOperation(c, op)
  /\ UNCHANGED << imageVars, productDescription, scriptVars, scriptCalls,
                  lastReset, envVars >>

\* The generateVideos call threw e: generateAdVideo's catch, the handler's
\* catch and finally.
VideoSubmitThrew(c, e) ==
  /\ c \in PendingVideoCalls
  /\ c.pc = "submit"
  /\ VideoSettle(c, VideoThrowOutcome[e])
  /\ UNCHANGED << imageVars, productDescription, scriptVars, scriptCalls,
                  lastReset, envVars >>

\* The 10 s setTimeout fired: the loop body goes on to getVideosOperation.
VideoDelayElapsed(c) ==
  /\ c \in PendingVideoCalls
  /\ c.pc = "delay"
  /\ c.checks < MaxPolls
  /\ videoCalls' =
       Replace(videoCalls, c, [c EXCEPT !.pc = "check", !.checks = @ + 1])
  /\ UNCHANGED << imageVars, productDescription, scriptVars, videoVars, scriptCalls,
                  lastReset, envVars >>

\* getVideosOperation returned op.
VideoCheckReturned(c, op) ==
  /\ c \in PendingVideoCalls
  /\ c.pc = "check"
  /\ WithOperation(c, op)
  /\ UNCHANGED << imageVars, productDescription, scriptVars, scriptCalls,
                  lastReset, envVars >>

\* getVideosOperation threw e.
VideoCheckThrew(c, e) ==
  /\ c \in PendingVideoCalls
  /\ c.pc = "check"
  /\ VideoSettle(c, VideoThrowOutcome[e])
  /\ UNCHANGED << imageVars, productDescription, scriptVars, scriptCalls,
                  lastReset, envVars >>

\* The 5 s setInterval callback of timer t.
MessageTick(t) ==
  /\ t \in activeTimers
  /\ ticks < MaxTicks
  /\ videoLoadingMessage' = NextLoadingMessage(videoLoadingMessage)
  /\ ticks' = ticks + 1
  /\ UNCHANGED << imageVars, productDescription, scriptVars, isVideoLoading,
                  videoUrl, videoError, loadingIntervalRef, activeTimers,
                  scriptCalls, videoCalls, lastReset, envVars >>

(* ------------------------------ AdDisplay ----------------------------- *)

\* One scene card: its key, its "SCENE n" heading and the four fields.
SceneCard(scene) ==
  [key |-> scene.sceneNumber,
   heading |-> "SCENE " \o ToString(scene.sceneNumber),
   setting |-> scene.setting,
   sound |-> scene.sound,
   action |-> scene.action,
   dialogue |-> scene.dialogue]

\* A list that renders one card per key, the first of each.
SceneCardsOnePerKey(script) ==
  LET scenes == script.scenes
      first == { i \in 1..Len(scenes) :
                   \A j \in 1..(i - 1) : scenes[j].sceneNumber # scenes[i].sceneNumber }
      RECURSIVE Cards(_)
      Cards(i) == IF i > Len(scenes) THEN << >>
                  ELSE IF i \in first THEN << SceneCard(scenes[i]) >> \o Cards(i + 1)
                  ELSE Cards(i + 1)
  IN  Cards(1)

\* adScript.scenes.map((scene) => <div key={scene.sceneNumber}> ... </div>):
\* the cards AdDisplay mounts. The list is mounted with AdDisplay and its
\* scenes never change while it is mounted (adScript changes through null),
\* so React makes one child per element, whatever the keys.
SceneCards(script) ==
  [i \in 1..Len(script.scenes) |-> SceneCard(script.scenes[i])]

\* The text formatScriptForCopy appends for one scene.
SceneText(scene) ==
  "SCENE " \o ToString(scene.sceneNumber) \o "\n"
    \o "SETTING: " \o scene.setting \o "\n"
    \o "ACTION: " \o scene.action \o "\n"
    \o "DIALOGUE: " \o scene.dialogue \o "\n"
    \o "SOUND: " \o scene.sound \o "\n\n"

\* formatScriptForCopy: the header, then script.scenes.forEach.
FormatScriptForCopy(script) ==
  LET RECURSIVE ForEach(_)
      ForEach(i) == IF i > Len(script.scenes) THEN ""
                    ELSE SceneText(script.scenes[i]) \o ForEach(i + 1)
  IN  "Title: " \o script.title \o "\n"
        \o "Tagline: " \o script.tagline \o "\n\n"
        \o "--- SCRIPT ---\n\n"
        \o ForEach(1)

(* --------------------------- specification ---------------------------- *)

Next ==
  \/ \E f \in PickedFiles : SelectFile(f)
  \/ \E f \in ImageFiles, ok \in BOOLEAN : FileReaderLoadEnd(f, ok)
  \/ \E d \in Descriptions : SetDescription(d)
  \/ RemoveImage
  \/ TryAgain
  \/ NewScript
  \/ GenerateScript
  \/ \E c \in PendingScriptCalls : ScriptFileRead(c)
  \/ \E c \in PendingScriptCalls, e \in FileErrors : ScriptFileReadFailed(c, e)
  \/ \E c \in PendingScriptCalls, resp \in ScriptResponses : ScriptSettled(c, resp)
  \/ GenerateVideo
  \/ RetryVideo
  \/ \E c \in PendingVideoCalls : VideoFileRead(c)
  \/ \E c \in PendingVideoCalls, e \in FileErrors : VideoFileReadFailed(c, e)
  \/ \E c \in PendingVideoCalls :
        \E op \in Operations(c.script, c.file) : VideoSubmitReturned(c, op)
  \/ \E c \in PendingVideoCalls, e \in VideoApiErrors : VideoSubmitThrew(c, e)
  \/ \E c \in PendingVideoCalls : VideoDelayElapsed(c)
  \/ \E c \in PendingVideoCalls :
        \E op \in Operations(c.script, c.file) : VideoCheckReturned(c, op)
  \/ \E c \in PendingVideoCalls, e \in VideoApiErrors : VideoCheckThrew(c, e)

\* MessageTick reads and writes videoLoadingMessage alone, and no other
\* action reads it: Spec is the program with the cosmetic timer's callback
\* left aside, SpecTicks the program with it.
NextWithTicks ==
  \/ Next
  \/ \E t \in activeTimers : MessageTick(t)

\* A step of a pending handleGenerateVideo invocation: a promise it awaits
\* settles (the file read, generateVideos, the 10 s timer, getVideosOperation).
VideoCallStep ==
  \E c \in PendingVideoCalls :
    \/ VideoFileRead(c)
    \/ \E e \in FileErrors : VideoFileReadFailed(c, e)
    \/ \E op \in Operations(c.script, c.file) : VideoSubmitReturned(c, op)
    \/ \E e \in VideoApiErrors : VideoSubmitThrew(c, e)
    \/ VideoDelayElapsed(c)
    \/ \E op \in Operations(c.script, c.file) : VideoCheckReturned(c, op)
    \/ \E e \in VideoApiErrors : VideoCheckThrew(c, e)

\* A step of a pending handleGenerateScript invocation: the file read or
\* generateAdScript settles.
ScriptCallStep ==
  \E c \in PendingScriptCalls :
    \/ ScriptFileRead(c)
    \/ \E e \in FileErrors : ScriptFileReadFailed(c, e)
    \/ \E resp \in ScriptResponses : ScriptSettled(c, resp)

Spec == Init /\ [][Next]_vars

\* The event loop runs every callback that is due, and every request is
\* answered (with a value or an error): the pending video invocations go on.
SpecFair == Init /\ [][Next]_vars /\ WF_vars(VideoCallStep)

SpecTicks == Init /\ [][NextWithTicks]_vars

(* ------------------------------ claims -------------------------------- *)

\* How many pending generateAdVideo invocations await one of pcs: "submit"
\* (the generateVideos answer), "delay" (the 10 s timeout), "check" (a
\* getVideosOperation answer).
VideoCallsAt(pcs) ==
  LET RECURSIVE Count(_)
      Count(S) == IF S = {} THEN 0
                  ELSE LET c == CHOOSE d \in S : TRUE
                       IN  (IF c.pc \in pcs THEN CopiesIn(c, videoCalls) ELSE 0)
                             + Count(S \ {c})
  IN  Count(PendingVideoCalls)

\* C1: in every reachable state at most one generateAdVideo invocation is
\* pending (submitted or polling and not yet settled), so no two poll loops
\* are alive at the same time.
C1_AtMostOneVideoCall ==
  VideoCallsAt({"submit", "delay", "check"}) <= 1

\* An operation that is done and carries no download uri.
DoneWithoutUri(op) == op.done /\ ~Truthy(op.uri)

\* Invocation c received operation op from its submit or from a check.
ReceivedOperation(c, op) == VideoSubmitReturned(c, op) \/ VideoCheckReturned(c, op)

\* C2: when the operation is done and carries no download uri, the caller
\* stores the MissingResult message ("completed, but no download link was
\* found"), which is not the GenerationFailed message, in videoError, and no
\* URL is stored.
C2_MissingResultObserved ==
  [][\A c \in PendingVideoCalls : \A op \in Operations(c.script, c.file) :
       (ReceivedOperation(c, op) /\ DoneWithoutUri(op)) =>
          /\ videoError' = MsgMissingResult
          /\ MsgMissingResult # MsgVideoFailed
          /\ videoUrl' = videoUrl]_vars

\* The step is one of invocation c: c went on to its next await or ended.
Moved(c) == CopiesIn(c, videoCalls') < CopiesIn(c, videoCalls)

\* C3: in one generateAdVideo invocation every status check follows its own
\* 10 s delay and every delay is followed by one check, so after k elapsed
\* delays k checks have been issued; the loop leaves on the first operation
\* value that is done, issuing no delay or check after it, and goes on (one
\* more delay) on every value that is not done.
C3_PollLoop ==
  /\ [](\A c \in PendingVideoCalls :
          /\ c.pc \in {"fileRead", "submit"} => c.delays = 0 /\ c.checks = 0
          /\ c.pc = "delay" => c.delays = c.checks + 1
          /\ c.pc = "check" => c.delays = c.checks /\ c.checks >= 1)
  /\ [][\A c \in PendingVideoCalls :
          Moved(c) =>
            /\ \A op \in Operations(c.script, c.file) :
                 ReceivedOperation(c, op) =>
                   IF op.done
                   THEN videoCalls' = Remove(videoCalls, c)
                   ELSE videoCalls' =
                          Replace(videoCalls, c,
                                  [c EXCEPT !.pc = "delay", !.delays = c.delays + 1])
            /\ VideoDelayElapsed(c) =>
                 videoCalls' =
                   Replace(videoCalls, c,
                           [c EXCEPT !.pc = "check", !.checks = c.checks + 1])]_vars

\* C3's case: an invocation whose second delay has elapsed and whose second
\* check is out.
C3_Witness ==
  \E c \in PendingVideoCalls : c.pc = "check" /\ c.delays = 2 /\ c.checks = 2

\* The video part of the state is NotStarted, VideoLoading, VideoReady or
\* VideoError.
VideoSubStateOk ==
  /\ isVideoLoading => videoUrl = Null /\ videoError = Null
  /\ ~(videoUrl # Null /\ videoError # Null)

\* C4: in every reachable state isVideoLoading implies videoUrl and
\* videoError are null, videoUrl and videoError are never both non-null, and
\* VideoLoading is entered only while a script is present.
C4_VideoSubStates ==
  [][/\ VideoSubStateOk'
     /\ (~isVideoLoading /\ isVideoLoading') => adScript # Null]_vars

\* What both resets leave: no script, no error, no video, nothing loading.
ScriptAndVideoCleared ==
  /\ adScript = Null
  /\ error = Null
  /\ videoUrl = Null
  /\ videoError = Null
  /\ ~isLoading
  /\ ~isVideoLoading

\* C5: from any state handleReset (New Script) sets adScript, error, videoUrl
\* and videoError to null and isLoading and isVideoLoading to false and leaves
\* imageFile and imagePreview as they are; handleHardReset (Remove image, Try
\* Again) does the same and also sets imageFile and imagePreview to null.
C5_ResetEffects ==
  [][/\ NewScript =>
          /\ ScriptAndVideoCleared'
          /\ imageFile' = imageFile
          /\ imagePreview' = imagePreview
     /\ (RemoveImage \/ TryAgain) =>
          /\ ScriptAndVideoCleared'
          /\ imageFile' = Null
          /\ imagePreview' = Null]_vars

\* C5's case: New Script was pressed while a video request was pending, and
\* the image and its preview are still there.
C5_Witness ==
  /\ lastReset = "NewScript"
  /\ ScriptAndVideoCleared
  /\ videoCalls # EmptyBag
  /\ imageFile # Null
  /\ imagePreview # Null

\* The ScriptError state: a script request failed and nothing is loading.
ScriptError == error # Null /\ ~isLoading

\* A control that runs handleReset and keeps an image is rendered: New Script,
\* or the file input (whose handler sets the picked file and then resets).
SoftResetReachable == NewScriptEnabled \/ DropZoneShown

\* A control that runs handleHardReset is rendered: Try Again or Remove image.
HardResetReachable == ErrorPanelShown \/ PreviewShown

\* C6 as stated: from ScriptError a reset clears the error and shows the
\* form with no script, no error and the product description as it was; a
\* soft reset keeps the image, a hard reset discards it, and both are
\* reachable by a user action from ScriptError.
C6_AsStated ==
  [][/\ (ScriptError /\ (NewScript \/ TryAgain \/ RemoveImage)) =>
          /\ error' = Null
          /\ adScript' = Null
          /\ FormShown'
          /\ productDescription' = productDescription
     /\ (ScriptError /\ NewScript) => imageFile' = imageFile
     /\ (ScriptError /\ (TryAgain \/ RemoveImage)) => imageFile' = Null
     /\ ScriptError' => (SoftResetReachable' /\ HardResetReachable')]_vars

\* C6 amended: from ScriptError a reset clears the error and shows the form
\* with no script, no error and an empty product description; the hard reset
\* (Try Again, Remove image) discards the image and is always reachable; the
\* New Script button is not rendered, and handleReset runs only inside a file
\* selection, possible exactly while no preview is shown, after which the
\* picked file is the image.
C6_ResetFromScriptError ==
  [][/\ (ScriptError /\ (TryAgain \/ RemoveImage)) =>
          /\ error' = Null
          /\ adScript' = Null
          /\ FormShown'
          /\ productDescription' = ""
          /\ imageFile' = Null
          /\ imagePreview' = Null
     /\ \A f \in ImageFiles :
          (ScriptError /\ SelectFile(f)) =>
             /\ error' = Null
             /\ adScript' = Null
             /\ FormShown'
             /\ productDescription' = ""
             /\ imageFile' = f
     /\ ScriptError' =>
          /\ ErrorPanelShown'
          /\ ~NewScriptEnabled'
          /\ DropZoneShown' <=> ~Truthy(imagePreview')]_vars

\* C6's case: Try Again was pressed in ScriptError and the form is back,
\* empty.
C6_Witness ==
  /\ lastReset = "TryAgain"
  /\ FormShown
  /\ error = Null
  /\ productDescription = ""
  /\ imageFile = Null

\* The provider did not give generateAdScript a usable answer: the request
\* failed, or the text of the response is not a JSON document.
ScriptFailed(resp) == ~resp.ok \/ resp.text.kind # "json"

\* The provider signalled HTTP 429.
Signals429(thrown) == thrown.cause = "http429"

\* The provider signalled HTTP 429 or resource exhaustion.
SignalsQuota(thrown) == thrown.cause \in {"http429", "resourceExhausted"}

\* C7: generateAdScript fails with the RateLimited error exactly when the
\* provider signals HTTP 429, and with the generic GenerationFailed error on
\* every other failure, malformed JSON in the response included.
C7_RateLimitedExactlyOn429 ==
  [][\A c \in PendingScriptCalls : \A resp \in ScriptResponses :
       (ScriptSettled(c, resp) /\ ScriptFailed(resp)) =>
          error' = IF ~resp.ok /\ Signals429(resp.thrown)
                   THEN MsgRateLimited
                   ELSE MsgScriptFailed]_vars

\* C8: generateAdVideo fails with the QuotaExceeded error when the provider
\* signals HTTP 429 or resource exhaustion, and with the generic
\* GenerationFailed error when the request fails for any other reason.
C8_QuotaExceededOn429OrExhaustion ==
  [][\A c \in PendingVideoCalls : \A e \in VideoApiErrors :
       (VideoSubmitThrew(c, e) \/ VideoCheckThrew(c, e)) =>
          videoError' = IF SignalsQuota(e)
                        THEN MsgQuotaExceeded
                        ELSE MsgVideoFailed]_vars

\* C9: neither service function retries: an invocation of generateAdScript
\* sends one generateContent request and an invocation of generateAdVideo one
\* generateVideos request; the step on which an invocation fails sets the
\* handler's error field, clears its loading flag, ends the invocation and
\* starts none; and invocations are started by the user's buttons alone.
C9_NoAutomaticRetry ==
  /\ [](/\ \A c \in PendingScriptCalls :
             c.requests = IF c.pc = "request" THEN 1 ELSE 0
        /\ \A c \in PendingVideoCalls :
             c.submits = IF c.pc = "fileRead" THEN 0 ELSE 1)
  /\ [][/\ scriptCalls' # scriptCalls =>
             /\ \A c \in PendingScriptCalls : \A resp \in ScriptResponses :
                  (ScriptSettled(c, resp) /\ ScriptFailed(resp)) =>
                     /\ Truthy(error')
                     /\ ~isLoading'
                     /\ scriptCalls' = Remove(scriptCalls, c)
                     /\ videoCalls' = videoCalls
             /\ BagCardinality(scriptCalls') > BagCardinality(scriptCalls)
                  => GenerateScript
        /\ videoCalls' # videoCalls =>
             /\ \A c \in PendingVideoCalls :
                  (Moved(c) /\ c.pc \in {"submit", "check"}) =>
                    \/ /\ Truthy(videoError')
                       /\ ~isVideoLoading'
                       /\ videoCalls' = Remove(videoCalls, c)
                       /\ scriptCalls' = scriptCalls
                    \/ \A e \in VideoApiErrors :
                         ~(VideoSubmitThrew(c, e) \/ VideoCheckThrew(c, e))
             /\ BagCardinality(videoCalls') > BagCardinality(videoCalls)
                  => (GenerateVideo \/ RetryVideo)]_vars

\* C9's case: the one generateContent request of the last Generate Script
\* failed; the error is shown, nothing is loading and no request is out.
C9_Witness ==
  /\ lastReset = "none"
  /\ error = MsgScriptFailed
  /\ ~isLoading
  /\ scriptCalls = EmptyBag
  /\ videoCalls = EmptyBag

\* What the user can do to the App: pick a file, type, and the buttons.
UserAction ==
  \/ \E f \in ImageFiles : SelectFile(f)
  \/ \E d \in Descriptions : SetDescription(d)
  \/ RemoveImage
  \/ TryAgain
  \/ NewScript
  \/ GenerateScript
  \/ GenerateVideo
  \/ RetryVideo

\* C10: at most one generateAdScript invocation is in flight at any time: an
\* invocation in flight keeps isLoading true, and while isLoading is true no
\* control is rendered and no step is a user action.
C10_AtMostOneScriptCall ==
  /\ [](/\ BagCardinality(scriptCalls) <= 1
        /\ scriptCalls # EmptyBag => isLoading
        /\ isLoading =>
             /\ ~FormShown
             /\ ~ErrorPanelShown
             /\ ~AdDisplayShown
             /\ ~GenerateScriptEnabled)
  /\ [][isLoading => ~UserAction]_vars

\* C10's case: the generateContent request of the one invocation is out.
C10_Witness ==
  /\ isLoading
  /\ \E c \in PendingScriptCalls : c.pc = "request"
  /\ BagCardinality(scriptCalls) = 1

\* The script part of the state is Idle, ScriptLoading, ScriptReady or
\* ScriptError.
ScriptStateOk ==
  /\ ~(adScript # Null /\ error # Null)
  /\ isLoading => adScript = Null /\ error = Null

\* C11: Generate Script with an image selected enters ScriptLoading
\* (isLoading true, adScript and error null); when the invocation settles
\* isLoading is false and exactly one of adScript (on success) and error (on
\* failure) is non-null; and in every reachable state adScript and error are
\* not both non-null and both are null while isLoading is true.
C11_ScriptFlow ==
  /\ [](ScriptStateOk)
  /\ [][/\ (GenerateScript /\ imageFile # Null) =>
             /\ isLoading'
             /\ adScript' = Null
             /\ error' = Null
        /\ scriptCalls' # scriptCalls =>
             \A c \in PendingScriptCalls :
               /\ \A resp \in ScriptResponses :
                    ScriptSettled(c, resp) =>
                      /\ ~isLoading'
                      /\ IF ScriptFailed(resp)
                         THEN error' # Null /\ adScript' = Null
                         ELSE adScript' # Null /\ error' = Null
               /\ \A e \in FileErrors :
                    ScriptFileReadFailed(c, e) =>
                      /\ ~isLoading'
                      /\ error' # Null
                      /\ adScript' = Null]_vars

\* C11's case: a script request has settled with a script (ScriptReady).
C11_Witness ==
  /\ adScript # Null
  /\ error = Null
  /\ ~isLoading
  /\ scriptCalls = EmptyBag
  /\ lastReset = "none"
  /\ videoCalls = EmptyBag

\* An invocation has polled as often as the model follows it, every answer
\* "not done", and is waiting on: the model's picture of an endless wait.
StillPolling ==
  \E c \in PendingVideoCalls : c.pc = "delay" /\ c.checks = MaxPolls

\* A control that runs handleReset was used.
ResetAction ==
  \/ NewScript
  \/ RemoveImage
  \/ TryAgain
  \/ \E f \in ImageFiles : SelectFile(f)

\* C12: a generateAdVideo invocation ends exactly on an operation that is
\* done or on a failing call: an answer "not done" keeps it pending with
\* isVideoLoading as it was, nothing else (no timeout, no reset) ends it,
\* and isVideoLoading turns false only when an invocation ends or the user
\* resets; an answer "done" ends the invocation and turns isVideoLoading
\* false in the same run. With the pending invocations going on (weak
\* fairness), isVideoLoading leads to isVideoLoading false or to an
\* invocation still polling after MaxPolls answers "not done".
C12_VideoTermination ==
  /\ [][/\ videoCalls' # videoCalls =>
             \A c \in PendingVideoCalls :
               Moved(c) =>
                 \A op \in Operations(c.script, c.file) :
                   ReceivedOperation(c, op) =>
                     IF op.done
                     THEN /\ videoCalls' = Remove(videoCalls, c)
                          /\ ~isVideoLoading'
                     ELSE /\ BagCardinality(videoCalls') = BagCardinality(videoCalls)
                          /\ isVideoLoading' = isVideoLoading
        /\ BagCardinality(videoCalls') < BagCardinality(videoCalls) =>
             \E c \in PendingVideoCalls :
               \/ \E op \in Operations(c.script, c.file) :
                    op.done /\ ReceivedOperation(c, op)
               \/ \E e \in VideoApiErrors :
                    VideoSubmitThrew(c, e) \/ VideoCheckThrew(c, e)
               \/ \E e \in FileErrors : VideoFileReadFailed(c, e)
        /\ (isVideoLoading /\ ~isVideoLoading') =>
             \/ BagCardinality(videoCalls') < BagCardinality(videoCalls)
             \/ ResetAction]_vars
  /\ (isVideoLoading ~> (~isVideoLoading \/ StillPolling))

\* C12's case: the one invocation has had MaxPolls answers "not done", no
\* reset was used, and the UI is still loading.
C12_Witness ==
  /\ isVideoLoading
  /\ StillPolling
  /\ BagCardinality(videoCalls) = 1
  /\ lastReset = "none"

\* C13: each video request starts the status message at the first entry of
\* LOADING_MESSAGES; every tick moves it to the next entry, the last one
\* wrapping to the first, so while the UI is in VideoLoading the message after
\* k ticks is entry k mod 8; and between two states that are not VideoLoading
\* the message does not change.
C13_MessageRotation ==
  /\ [](/\ Len(LOADING_MESSAGES) = 8
        /\ isVideoLoading =>
             videoLoadingMessage = LOADING_MESSAGES[(ticks % 8) + 1])
  /\ [][/\ ((GenerateVideo \/ RetryVideo) /\ isVideoLoading') =>
             videoLoadingMessage' = LOADING_MESSAGES[1]
        /\ videoLoadingMessage' # videoLoadingMessage =>
             /\ isVideoLoading'
             /\ \A t \in activeTimers :
                  MessageTick(t) =>
                    IndexOf(LOADING_MESSAGES, videoLoadingMessage') =
                      (IndexOf(LOADING_MESSAGES, videoLoadingMessage) + 1) % 8]_vars

\* C13's case: nine ticks into a video request the message has gone round
\* once and is at the second entry.
C13_Witness ==
  /\ isVideoLoading
  /\ ticks = 9
  /\ videoLoadingMessage = LOADING_MESSAGES[2]

\* The k-th smallest element of a finite set of numbers.
Nth(S, k) == CHOOSE p \in S : Cardinality({ q \in S : q <= p }) = k

\* The lines of a text (split on "\n").
Lines(text) ==
  LET breaks == { i \in 1..Len(text) : SubSeq(text, i, i) = "\n" }
      n == Cardinality(breaks)
  IN  [k \in 1..(n + 1) |->
         SubSeq(text,
                IF k = 1 THEN 1 ELSE Nth(breaks, k - 1) + 1,
                IF k <= n THEN Nth(breaks, k) - 1 ELSE Len(text))]

\* The scene blocks a reader finds in a copied text, in the order of the
\* text: each "SCENE ..." line with the four lines after it.
SceneBlocks(text) ==
  LET lines == Lines(text)
      heads == { i \in 1..Len(lines) : StartsWith(lines[i], "SCENE ") }
  IN  [k \in 1..Cardinality(heads) |->
         SubSeq(lines, Nth(heads, k), Nth(heads, k) + 4)]

\* The block of lines that shows scene.
BlockOf(scene) ==
  << "SCENE " \o ToString(scene.sceneNumber),
     "SETTING: " \o scene.setting,
     "ACTION: " \o scene.action,
     "DIALOGUE: " \o scene.dialogue,
     "SOUND: " \o scene.sound >>

\* The i-th card shows the i-th scene, and there are as many cards as scenes.
CardsShow(cards, scenes) ==
  /\ Len(cards) = Len(scenes)
  /\ \A i \in 1..Len(scenes) :
       /\ cards[i].heading = "SCENE " \o ToString(scenes[i].sceneNumber)
       /\ cards[i].setting = scenes[i].setting
       /\ cards[i].sound = scenes[i].sound
       /\ cards[i].action = scenes[i].action
       /\ cards[i].dialogue = scenes[i].dialogue

\* The i-th scene block of the text shows the i-th scene, and there are as
\* many blocks as scenes.
TextShows(text, scenes) ==
  SceneBlocks(text) = [i \in 1..Len(scenes) |-> BlockOf(scenes[i])]

\* Cards and copied text of every sample AdScript show its scenes.
SampleDocumentsShown ==
  \A script \in SampleDocuments :
    /\ CardsShow(SceneCards(script), script.scenes)
    /\ TextShows(FormatScriptForCopy(script), script.scenes)

\* For each script the provider may return: AdDisplay's cards and its copy
\* text show the scenes of that script, one each, in the response's order.
ScriptShown ==
  [s \in ScriptContents |->
     LET script == ScriptDocument[s]
     IN  /\ CardsShow(SceneCards(script), script.scenes)
         /\ TextShows(FormatScriptForCopy(script), script.scenes)]

\* C14: whenever AdDisplay is on screen (ScriptReady) it shows one scene card
\* per scene of the stored script response, the i-th card the i-th scene,
\* and the text its Copy button produces holds the same scenes in the same
\* order; the same is true of every sample AdScript with 0..MaxScenes scenes.
C14_ScenesInOrder ==
  AdDisplayShown => ScriptShown[adScript] /\ SampleDocumentsShown

\* C14's case: the three-scene response is on screen with its three cards.
C14_Witness ==
  /\ AdDisplayShown
  /\ Len(ScriptDocument[adScript].scenes) = 3
  /\ Len(SceneCards(ScriptDocument[adScript])) = 3
  /\ Len(SceneBlocks(FormatScriptForCopy(ScriptDocument[adScript]))) = 3

(* ------------------------------ C15 ----------------------------------- *)

CredentialAbsent == ~Truthy(apiKey)

NoRequestIssued == scriptCalls = EmptyBag /\ videoCalls = EmptyBag

\* C15: when process.env.API_KEY is absent, loading geminiService throws its
\* configuration error and the client is never made; from then on no script
\* or video request is issued, and nothing else happens either.  With a key
\* the module loads, the client exists and is made from that key.
C15_NoKeyNoRequests ==
  /\ [](CredentialAbsent =>
          /\ GeminiServiceModule(apiKey).threw = MsgNoApiKey
          /\ ai = Null
          /\ NoRequestIssued)
  /\ [](~CredentialAbsent =>
          /\ GeminiServiceModule(apiKey).threw = Null
          /\ ai # Null)
  /\ [][~CredentialAbsent]_vars

C15_Witness == apiKey = "" /\ ai = Null /\ NoRequestIssued

(* ------------------------------ C16 ----------------------------------- *)

ScriptSide ==
  << adScript, error, isLoading, productDescription, imageFile, imagePreview >>

VideoSide == << videoUrl, videoError, isVideoLoading >>

VideoRequestStep ==
  \/ GenerateVideo
  \/ RetryVideo
  \/ VideoCallStep
  \/ \E t \in activeTimers : MessageTick(t)

ScriptRequestStep == GenerateScript \/ ScriptCallStep

\* C16: the video request and the script request do not touch each other's
\* state.  A step of a video request (the Generate Video or Retry click, a
\* message tick, an answer, the completion or the failure) leaves adScript,
\* error, isLoading, productDescription, imageFile and imagePreview as they
\* were; a step of a script request (the click and the later steps of its
\* invocation) leaves videoUrl, videoError and isVideoLoading as they were.
C16_VideoIndependentOfScript ==
  [][ /\ (UNCHANGED ScriptSide \/ ~VideoRequestStep)
      /\ (UNCHANGED VideoSide \/ ~ScriptRequestStep) ]_vars

\* A script request runs while the result of a video request that had
\* rotated its message is on the state.
C16_Witness == isLoading /\ videoUrl # Null /\ ticks > 0

(* ------------------------------ C17 ----------------------------------- *)

\* C17: right after handleFileSelect(f), imageFile is f, adScript, error,
\* videoUrl and videoError are null, isLoading and isVideoLoading are false,
\* productDescription is empty and no rotation timer runs; the preview is
\* left to the reader's callback.
C17_FileSelectResets ==
  [][ \A f \in ImageFiles :
        SelectFile(f) =>
          /\ imageFile' = f
          /\ adScript' = Null /\ error' = Null
          /\ videoUrl' = Null /\ videoError' = Null
          /\ ~isLoading' /\ ~isVideoLoading'
          /\ productDescription' = ""
          /\ activeTimers' = {}
          /\ imagePreview' = imagePreview ]_vars

\* A file was selected while an earlier video invocation was still pending.
C17_Witness ==
  /\ lastReset = "SelectFile"
  /\ imageFile = "a.png"
  /\ pendingReads["a.png"] = 1
  /\ videoCalls # EmptyBag
  /\ productDescription = "" /\ error = Null /\ videoUrl = Null

(* ------------------------------ C18 ----------------------------------- *)

\* The url handleGenerateVideo stores when the provider made the video of
\* script and file.
VideoUrlFor(script, file) ==
  VideoResult(Operation(TRUE, DownloadLink(script, file))).value

\* C18: no video result of an abandoned request is shown.  While no script
\* was requested since the last reset or file selection (so no video request
\* can have started since), videoUrl and videoError are null; and a videoUrl
\* that is not null is the one made for the adScript and the imageFile the
\* App holds now.
C18_NoAbandonedResult ==
  /\ lastReset # "none" => videoUrl = Null /\ videoError = Null
  /\ videoUrl # Null =>
        /\ adScript # Null
        /\ imageFile # Null
        /\ videoUrl = VideoUrlFor(adScript, imageFile)

(* ------------------------------ C19 ----------------------------------- *)

ScriptInvocationPending == scriptCalls # EmptyBag

VideoInvocationPending == videoCalls # EmptyBag

\* The script half of C19, which the code keeps: isLoading is true exactly
\* while a handleGenerateScript invocation is pending.
IsLoadingTruthful == isLoading <=> ScriptInvocationPending

\* C19: isLoading is true exactly when a generateAdScript invocation is
\* pending, isVideoLoading is true exactly when a generateAdVideo invocation
\* is pending, and so the Generate Video button is enabled only when no
\* video request is pending.
C19_LoadingFlagsTruthful ==
  /\ IsLoadingTruthful
  /\ isVideoLoading <=> VideoInvocationPending
  /\ GenerateVideoEnabled => ~VideoInvocationPending

(* ------------------------------ C20 ----------------------------------- *)

\* The two facts about the timers that the code keeps: never two live
\* intervals, and one is live exactly while isVideoLoading is true.
OneTimerWhileLoading ==
  /\ Cardinality(activeTimers) <= 1
  /\ activeTimers # {} <=> isVideoLoading

\* Invocation c settles in this step: its finally block runs.
Settles(c) ==
  /\ Moved(c)
  /\ BagCardinality(videoCalls') < BagCardinality(videoCalls)

\* Invocation c was started for a script the App no longer holds while a
\* request is loading.  isVideoLoading is set by handleGenerateVideo alone
\* and cleared by every reset and every finally, so the request that set it
\* was started after the reset that replaced c's script, has not settled,
\* and owns the live interval: c is the earlier request, that one the later.
EarlierThanLoadingRequest(c) == isVideoLoading /\ c.script # adScript

\* C20: at most one rotation timer is live, and one is live exactly when
\* isVideoLoading is true (started by Generate Video; stopped by completion,
\* failure, the resets and a file selection); and the finally block of a
\* request never stops the timer of a later request that is still loading.
C20_RotationTimer ==
  /\ [](OneTimerWhileLoading)
  /\ [][ videoCalls' = videoCalls \/
           \A c \in PendingVideoCalls :
             (EarlierThanLoadingRequest(c) /\ Settles(c))
               => activeTimers' = activeTimers ]_vars

(* ------------------------------ C21 ----------------------------------- *)

\* C21: a preview that is not null is the data URL read from the file the
\* App holds now; in particular there is no preview without a file, however
\* selections, hard resets and the readers' onloadend callbacks interleave.
C21_PreviewOfSelectedFile ==
  imagePreview # Null =>
    /\ imageFile # Null
    /\ imagePreview = DataUrl(imageFile)

(* ------------------------------ C22 ----------------------------------- *)

\* The part of C22 that the code keeps: the script view is never rendered
\* without a file, and the handlers are never run into their guard
\* branches (no script or no image).
GuardsNeverTaken ==
  /\ [](AdDisplayShown => imageFile # Null)
  /\ [][ /\ (GenerateVideo \/ RetryVideo) => adScript # Null /\ imageFile # Null
         /\ GenerateScript => imageFile # Null ]_vars

\* C22: whenever the script view is rendered (adScript not null, isLoading
\* false) imageFile and imagePreview are not null, so AdDisplay's
\* productImage is a string; and no enabled user action runs
\* handleGenerateVideo or handleGenerateScript into its guard branch.
C22_ScriptViewHasImage ==
  /\ [](AdDisplayShown => imageFile # Null /\ imagePreview # Null)
  /\ GuardsNeverTaken

====
